---- MODULE Spec2Model ----
(***************************************************************************)
(* easy_time: calendar offsets on a chrono DateTime<F> (src/src/lib.rs).   *)
(*                                                                         *)
(* An EasyTime<F> is {value: i64, time_now: DateTime<F>}.  The month and   *)
(* year operations read both fields, compute a target civil date with day  *)
(* clamping and rebuild a DateTime in the base's zone.  Every operation    *)
(* either returns a DateTime or panics; the model records the outcome of   *)
(* the last call in `result`.                                              *)
(*                                                                         *)
(* Representation.                                                         *)
(*  - i32 values are integers in I32Min..I32Max; checked and wrapping      *)
(*    arithmetic is computed without ever leaving that range.              *)
(*  - an i64 value is the pair [hi, lo] standing for hi * 2^32 + lo with   *)
(*    lo in I32Min..I32Max, so that `value as i32` is exactly lo.          *)
(*  - a DateTime<F> is its zone, its local civil fields (what              *)
(*    naive_local() returns) and the UTC offset in force, in seconds; the  *)
(*    instant is local - off.                                              *)
(***************************************************************************)
EXTENDS Integers, Sequences, FiniteSets, TLC

VARIABLES value, time_now, overflow_checks, op, arg, result, probe

vars == <<value, time_now, overflow_checks, op, arg, result, probe>>

-----------------------------------------------------------------------------
(* Bounds of the explored inputs *)

\* month/year magnitudes -MaxDelta..MaxDelta are explored exhaustively
MaxDelta == 13

\* base years TestYear .. TestYear + NumYears - 1
NumYears == 2

-----------------------------------------------------------------------------
(* Program and library constants *)

I32Max == 2147483647

I32Min == -I32Max - 1

\* chrono::NaiveDate accepts years MinYear..MaxYear (from_ymd_opt is None outside)
MaxYear == 262142

MinYear == -262143

\* first base year used by the repository's tests
TestYear == 2023

SecondsPerHour == 3600

\* DAYS_IN_MONTH, non-leap year
DAYS_IN_MONTH == <<31, 28, 31, 30, 31, 30, 31, 31, 30, 31, 30, 31>>

-----------------------------------------------------------------------------
(* i32 arithmetic: debug builds panic on overflow, release builds wrap *)

AddOverflows(a, b) ==
    \/ (b > 0 /\ a > I32Max - b)
    \/ (b < 0 /\ a < I32Min - b)

\* a + b modulo 2^32, as a signed 32-bit value
WrapAdd(a, b) ==
    IF b > 0 /\ a > I32Max - b THEN (a - I32Max - 1) + (b - I32Max - 1)
    ELSE IF b < 0 /\ a < I32Min - b THEN (a + I32Max + 1) + (b + I32Max + 1)
    ELSE a + b

NegOverflows(a) == a = I32Min

WrapNeg(a) == IF a = I32Min THEN I32Min ELSE -a

\* a * n overflows i32 (n > 0)
MulOverflows(a, n) ==
    LET hiq == I32Max \div n
        loq == hiq + (IF I32Max % n = n - 1 THEN 1 ELSE 0)
    IN  a > hiq \/ a < -loq

RECURSIVE WrapMul(_, _)
\* a * n modulo 2^32 (n >= 0), by doubling
WrapMul(a, n) ==
    IF n = 0 THEN 0
    ELSE LET h == WrapMul(a, n \div 2)
             d == WrapAdd(h, h)
         IN  IF n % 2 = 1 THEN WrapAdd(d, a) ELSE d

\* Rust `/` and `%` truncate toward zero
div_trunc(a, b) ==
    IF a >= 0 THEN a \div b
    ELSE IF a = I32Min THEN -((-(a + b)) \div b) - 1
    ELSE -((-a) \div b)

rem_trunc(a, b) == a - b * div_trunc(a, b)

\* (variant: `/` where div_euclid is needed)
div_euclid_truncating(a, b) == div_trunc(a, b)

\* i32::div_euclid / rem_euclid for a positive divisor: floored
div_euclid(a, b) == a \div b

\* (variant: the truncating remainder `%`)
rem_euclid_truncating(a, b) == rem_trunc(a, b)

rem_euclid(a, b) == a % b

\* `x as u32`: a negative i32 becomes x + 2^32 >= 2^31.  Every use below only
\* compares the month with 2, indexes the 12-entry table or validates a date,
\* where any such value behaves alike; it is represented by I32Max.
as_u32(x) == IF x >= 0 THEN x ELSE I32Max

\* `value as i32` keeps the low 32 bits
as_i32(v) == v.lo

-----------------------------------------------------------------------------
(* Outcomes of a call *)

NoDateTime == [zone |-> "none", year |-> 0, month |-> 0, day |-> 0, secs |-> 0, off |-> 0]

Returned(dt) == [kind |-> "ok", dt |-> dt, msg |-> ""]

Panic(msg) == [kind |-> "panic", dt |-> NoDateTime, msg |-> msg]

NotCalled == [kind |-> "none", dt |-> NoDateTime, msg |-> ""]

-----------------------------------------------------------------------------
(* Calendar helpers *)

\* (variant: every fourth year is a leap year)
is_leap_year_every_fourth(year) == rem_trunc(year, 4) = 0

\* (variant: the `year % 400 == 0` clause left out)
is_leap_year_no_400(year) == rem_trunc(year, 4) = 0 /\ rem_trunc(year, 100) # 0

is_leap_year(year) ==
    (rem_trunc(year, 4) = 0 /\ rem_trunc(year, 100) # 0) \/ (rem_trunc(year, 400) = 0)

\* DAYS_IN_MONTH[(month - 1) as usize] is in bounds
IndexInBounds(month) == month >= 1 /\ month <= Len(DAYS_IN_MONTH)

\* (variant: the leap-year branch left out)
days_in_month_no_leap(year, month) ==
    IF IndexInBounds(month) THEN DAYS_IN_MONTH[month] ELSE 0

\* days_in_month(year, month); 0 stands for the panic of an out-of-bounds index
days_in_month(year, month) ==
    IF month = 2 /\ is_leap_year(year) THEN 29
    ELSE IF IndexInBounds(month) THEN DAYS_IN_MONTH[month]
    ELSE 0

Min(a, b) == IF a <= b THEN a ELSE b

\* chrono's own calendar: the proleptic Gregorian month length
ChronoDaysInMonth(year, month) ==
    CASE month \in {1, 3, 5, 7, 8, 10, 12} -> 31
      [] month \in {4, 6, 9, 11} -> 30
      [] OTHER -> IF (year % 4 = 0 /\ year % 100 # 0) \/ year % 400 = 0 THEN 29 ELSE 28

\* NaiveDate::from_ymd_opt(year, month, day).is_some()
from_ymd_opt(year, month, day) ==
    /\ year >= MinYear /\ year <= MaxYear
    /\ month >= 1 /\ month <= 12
    /\ day >= 1 /\ day <= ChronoDaysInMonth(year, month)

-----------------------------------------------------------------------------
(* Zones: F::from_local_datetime classifies a naive local date-time *)

Zones == {"UTC", "DST"}

\* the "DST" zone: standard offset +1h, daylight offset +2h, forward at local
\* 02:00 on March 31 (02:00..03:00 does not exist), back at local 03:00 on
\* October 31 (02:00..03:00 occurs twice)
StdOff == SecondsPerHour

DstOff == 2 * SecondsPerHour

GapStart == 2 * SecondsPerHour

GapEnd == 3 * SecondsPerHour

InGap(naive) ==
    naive.month = 3 /\ naive.day = 31 /\ naive.secs >= GapStart /\ naive.secs < GapEnd

InFold(naive) ==
    naive.month = 10 /\ naive.day = 31 /\ naive.secs >= GapStart /\ naive.secs < GapEnd

\* daylight time is in force for this local time (outside the gap and the fold)
InSummer(naive) ==
    \/ naive.month > 3 /\ naive.month < 10
    \/ naive.month = 3 /\ naive.day = 31 /\ naive.secs >= GapEnd
    \/ naive.month = 10 /\ naive.day < 31
    \/ naive.month = 10 /\ naive.day = 31 /\ naive.secs < GapStart

\* LocalResult: Single(a), Ambiguous(a, b) with a the earliest, or None
from_local_datetime(zone, naive) ==
    IF zone = "UTC" THEN [kind |-> "Single", a |-> 0, b |-> 0]
    ELSE IF InGap(naive) THEN [kind |-> "None", a |-> 0, b |-> 0]
    ELSE IF InFold(naive) THEN [kind |-> "Ambiguous", a |-> DstOff, b |-> StdOff]
    ELSE IF InSummer(naive) THEN [kind |-> "Single", a |-> DstOff, b |-> DstOff]
    ELSE [kind |-> "Single", a |-> StdOff, b |-> StdOff]

\* (variant: the UTC projection of the time-of-day instead of the wall clock)
naive_local_utc_projection(dt) ==
    [year |-> dt.year, month |-> dt.month, day |-> dt.day, secs |-> dt.secs - dt.off]

\* DateTime::naive_local()
naive_local(dt) == [year |-> dt.year, month |-> dt.month, day |-> dt.day, secs |-> dt.secs]

MakeDateTime(zone, naive, off) ==
    [zone |-> zone, year |-> naive.year, month |-> naive.month, day |-> naive.day,
     secs |-> naive.secs, off |-> off]

\* (variant: the second arm)
AmbiguousChoiceLatest(lr) == lr.b

\* which LocalResult arm is returned for Ambiguous(a, _b)
AmbiguousChoice(lr) == lr.a

\* (variant: a nonexistent local time is moved past the gap instead of panicking)
build_datetime_from_naive_shifting(self, naive) ==
    LET lr == from_local_datetime(self.time_now.zone, naive)
    IN  CASE lr.kind = "Single" -> Returned(MakeDateTime(self.time_now.zone, naive, lr.a))
          [] lr.kind = "Ambiguous" ->
                Returned(MakeDateTime(self.time_now.zone, naive, AmbiguousChoice(lr)))
          [] OTHER ->
                Returned(MakeDateTime(self.time_now.zone,
                    [naive EXCEPT !.secs = naive.secs + SecondsPerHour], DstOff))

build_datetime_from_naive(self, naive) ==
    LET lr == from_local_datetime(self.time_now.zone, naive)
    IN  CASE lr.kind = "Single" -> Returned(MakeDateTime(self.time_now.zone, naive, lr.a))
          [] lr.kind = "Ambiguous" ->
                Returned(MakeDateTime(self.time_now.zone, naive, AmbiguousChoice(lr)))
          [] OTHER -> Panic("Invalid or non-existent local time.")

-----------------------------------------------------------------------------
(* Month-based offset *)

\* (variant: the month left one-based)
month_index_one_based(year, month) == year * 12 + month

\* year * 12 + (month - 1): at most 12 * 262143 in magnitude, never overflows
month_index(year, month) == year * 12 + (month - 1)

\* the i32 addition `... + months` overflows
total_months_overflows(year, month, months) ==
    AddOverflows(month_index(year, month), months)

\* let total_months = year * 12 + (month - 1) + months  (wrapped value)
total_months(year, month, months) == WrapAdd(month_index(year, month), months)

\* (variant: the quotient rounded up)
target_year_of_rounding_up(total) == div_euclid(total + 11, 12)

target_year_of(total) == div_euclid(total, 12)

\* (variant: the `+ 1` left out)
target_month_of_zero_based(total) == rem_euclid(total, 12)

target_month_of(total) == rem_euclid(total, 12) + 1

\* (variant: a day past the month's end counts on from its first day)
target_day_of_wrapping(day, days_in_target) ==
    IF day > days_in_target THEN day - days_in_target ELSE day

\* (variant: always the last day of the target month)
target_day_of_month_end(day, days_in_target) == days_in_target

\* (variant: no clamp)
target_day_of_unclamped(day, days_in_target) == day

\* std::cmp::min(day, days_in_target)
target_day_of(day, days_in_target) == Min(day, days_in_target)

\* the civil date add_months hands to NaiveDate::from_ymd_opt
add_months_target(self, months) ==
    LET naive == naive_local(self.time_now)
        total == total_months(naive.year, naive.month, months)
        ty    == target_year_of(total)
        tm    == as_u32(target_month_of(total))
    IN  [year |-> ty, month |-> tm,
         day |-> target_day_of(naive.day, days_in_month(ty, tm))]

add_months(self, months, checks) ==
    LET naive == naive_local(self.time_now)
        t     == add_months_target(self, months)
    IN  IF checks /\ total_months_overflows(naive.year, naive.month, months)
        THEN Panic("attempt to add with overflow")
        ELSE IF days_in_month(t.year, t.month) = 0
        THEN Panic("index out of bounds")
        ELSE IF ~from_ymd_opt(t.year, t.month, t.day)
        THEN Panic("Invalid date after adding months")
        ELSE build_datetime_from_naive(self,
                [year |-> t.year, month |-> t.month, day |-> t.day, secs |-> naive.secs])

-----------------------------------------------------------------------------
(* Year-based offsets *)

\* naive.year() + years overflows i32
target_year_overflows(year, years) == AddOverflows(year, years)

\* (variant: the month length looked up in the base year)
add_years_target_base_year_days(self, years) ==
    LET naive == naive_local(self.time_now)
    IN  [year |-> WrapAdd(naive.year, years), month |-> naive.month,
         day |-> target_day_of(naive.day, days_in_month(naive.year, naive.month))]

add_years_target(self, years) ==
    LET naive == naive_local(self.time_now)
        ty    == WrapAdd(naive.year, years)
    IN  [year |-> ty, month |-> naive.month,
         day |-> target_day_of(naive.day, days_in_month(ty, naive.month))]

add_years(self, years, checks) ==
    LET naive == naive_local(self.time_now)
        t     == add_years_target(self, years)
    IN  IF checks /\ target_year_overflows(naive.year, years)
        THEN Panic("attempt to add with overflow")
        ELSE IF ~from_ymd_opt(t.year, t.month, t.day)
        THEN Panic("Invalid date after adding years")
        ELSE build_datetime_from_naive(self,
                [year |-> t.year, month |-> t.month, day |-> t.day, secs |-> naive.secs])

-----------------------------------------------------------------------------
(* Arguments the public operations pass on: [ok, n, msg]; ok is FALSE when   *)
(* the argument expression itself panics (overflow checks on)                *)

Arg(n) == [ok |-> TRUE, n |-> n, msg |-> ""]

\* (variant: the unary minus left out)
neg_i32_identity(x, checks) == Arg(x)

\* -(x)
neg_i32(x, checks) ==
    IF checks /\ NegOverflows(x)
    THEN [ok |-> FALSE, n |-> 0, msg |-> "attempt to negate with overflow"]
    ELSE Arg(WrapNeg(x))

\* x * k
mul_i32(x, k, checks) ==
    IF checks /\ MulOverflows(x, k)
    THEN [ok |-> FALSE, n |-> 0, msg |-> "attempt to multiply with overflow"]
    ELSE Arg(WrapMul(x, k))

\* self.value as i32 * k
scaled_arg(self, k, checks) == mul_i32(as_i32(self.value), k, checks)

\* -(self.value as i32) * k
neg_scaled_arg(self, k, checks) ==
    LET n == neg_i32(as_i32(self.value), checks)
    IN  IF n.ok THEN mul_i32(n.n, k, checks) ELSE n

months_from_now_arg(self, checks) == Arg(as_i32(self.value))

months_ago_arg(self, checks) == neg_i32(as_i32(self.value), checks)

years_from_now_arg(self, checks) == Arg(as_i32(self.value))

years_ago_arg(self, checks) == neg_i32(as_i32(self.value), checks)

decades_from_now_arg(self, checks) == scaled_arg(self, 10, checks)

decades_ago_arg(self, checks) == neg_scaled_arg(self, 10, checks)

centuries_from_now_arg(self, checks) == scaled_arg(self, 100, checks)

centuries_ago_arg(self, checks) == neg_scaled_arg(self, 100, checks)

millenniums_from_now_arg(self, checks) == scaled_arg(self, 1000, checks)

millenniums_ago_arg(self, checks) == neg_scaled_arg(self, 1000, checks)

months_call(self, a, checks) == IF a.ok THEN add_months(self, a.n, checks) ELSE Panic(a.msg)

years_call(self, a, checks) == IF a.ok THEN add_years(self, a.n, checks) ELSE Panic(a.msg)

months_from_now(self, checks) == months_call(self, months_from_now_arg(self, checks), checks)

months_ago(self, checks) == months_call(self, months_ago_arg(self, checks), checks)

years_from_now(self, checks) == years_call(self, years_from_now_arg(self, checks), checks)

years_ago(self, checks) == years_call(self, years_ago_arg(self, checks), checks)

decades_from_now(self, checks) == years_call(self, decades_from_now_arg(self, checks), checks)

decades_ago(self, checks) == years_call(self, decades_ago_arg(self, checks), checks)

centuries_from_now(self, checks) == years_call(self, centuries_from_now_arg(self, checks), checks)

centuries_ago(self, checks) == years_call(self, centuries_ago_arg(self, checks), checks)

millenniums_from_now(self, checks) ==
    years_call(self, millenniums_from_now_arg(self, checks), checks)

millenniums_ago(self, checks) == years_call(self, millenniums_ago_arg(self, checks), checks)

-----------------------------------------------------------------------------
(* Inputs *)

\* i64 values: hi * 2^32 + lo
I64(hi, lo) == [hi |-> hi, lo |-> lo]

\* magnitudes at the edges of i32, and ones whose product with 10 leaves i32
\* (-24290 months reaches years -1 and -2 from the base years)
EdgeDeltas == {I32Min, I32Min + 1, I32Max, 178956970, 429496730, -24290, -24, 24}

Values ==
    {I64(0, n) : n \in (-MaxDelta..MaxDelta) \cup EdgeDeltas}
        \cup {I64(1, 1), I64(1, 8), I64(-1, -1)}

BaseYears == TestYear..(TestYear + NumYears - 1)

\* the days of the month that clamping can tell apart
SampleDays == {28, 29, 30, 31}

\* bases are at 12:00:00 in UTC and at 02:30:00, the hour of both transitions,
\* in the zone with daylight saving
TimesOfDay(zone) ==
    IF zone = "UTC" THEN {12 * SecondsPerHour} ELSE {GapStart + SecondsPerHour \div 2}

NaiveDateTimes(zone) ==
    {[year |-> y, month |-> m, day |-> d, secs |-> s] :
        y \in BaseYears, m \in 1..12, d \in SampleDays, s \in TimesOfDay(zone)}

\* the offsets a zone allows for a local date-time
Offsets(zone, naive) ==
    LET lr == from_local_datetime(zone, naive)
    IN  CASE lr.kind = "Single" -> {lr.a}
          [] lr.kind = "Ambiguous" -> {lr.a, lr.b}
          [] OTHER -> {}

\* every DateTime<F> that exists: a valid civil date at an offset of its zone
DateTimes ==
    UNION {UNION {{MakeDateTime(z, n, o) : o \in Offsets(z, n)} :
                    n \in {x \in NaiveDateTimes(z) : from_ymd_opt(x.year, x.month, x.day)}} :
            z \in Zones}

Self == [value |-> value, time_now |-> time_now]

NoArg == [ok |-> FALSE, n |-> 0, msg |-> ""]

-----------------------------------------------------------------------------
(* Fixed-length offsets: `time + duration` and `time - duration` move the    *)
(* instant.  An instant is [day, sec]: the UTC day, counted from 0000-03-01, *)
(* and the second of that day; a day count keeps every sum within reach      *)

SecondsPerMinute == 60

SecondsPerDay == 24 * SecondsPerHour

\* days of the proleptic Gregorian calendar from 0000-03-01 to a civil date
days_from_civil(year, month, day) ==
    LET y   == IF month <= 2 THEN year - 1 ELSE year
        era == y \div 400
        yoe == y - era * 400
        mp  == IF month > 2 THEN month - 3 ELSE month + 9
        doy == (153 * mp + 2) \div 5 + day - 1
    IN  era * 146097 + yoe * 365 + yoe \div 4 - yoe \div 100 + doy

\* the civil date of a day count
civil_from_days(z) ==
    LET era == z \div 146097
        doe == z - era * 146097
        yoe == (doe - doe \div 1460 + doe \div 36524 - doe \div 146096) \div 365
        doy == doe - (365 * yoe + yoe \div 4 - yoe \div 100)
        mp  == (5 * doy + 2) \div 153
        m   == IF mp < 10 THEN mp + 3 ELSE mp - 9
    IN  [year |-> yoe + era * 400 + (IF m <= 2 THEN 1 ELSE 0),
         month |-> m,
         day |-> doy - (153 * mp + 2) \div 5 + 1]

\* carry whole days out of a second count
Normalize(day, sec) == [day |-> day + sec \div SecondsPerDay, sec |-> sec % SecondsPerDay]

\* DateTime::naive_utc(): the instant, local fields minus the offset
naive_utc(dt) == Normalize(days_from_civil(dt.year, dt.month, dt.day), dt.secs - dt.off)

\* the "DST" zone's daylight time runs between the two transition instants
SummerInstant(inst) ==
    LET c == civil_from_days(inst.day)
    IN  \/ c.month > 3 /\ c.month < 10
        \/ c.month = 3 /\ c.day = 31 /\ inst.sec >= GapStart - StdOff
        \/ c.month = 10 /\ c.day < 31
        \/ c.month = 10 /\ c.day = 31 /\ inst.sec < GapEnd - DstOff

\* TimeZone::offset_from_utc_datetime
offset_from_utc_datetime(zone, inst) ==
    IF zone = "UTC" THEN 0 ELSE IF SummerInstant(inst) THEN DstOff ELSE StdOff

\* TimeZone::from_utc_datetime: the instant shown in the zone
from_utc_datetime(zone, inst) ==
    LET off   == offset_from_utc_datetime(zone, inst)
        local == Normalize(inst.day, inst.sec + off)
        c     == civil_from_days(local.day)
    IN  MakeDateTime(zone, [year |-> c.year, month |-> c.month, day |-> c.day,
                            secs |-> local.sec], off)

\* more days than lie between any two representable dates
DaySpan == (MaxYear - MinYear + 1) * 366

\* a Duration is [far, day, sec]; far: longer than DaySpan days, whatever it is
\* added to or subtracted from is out of range (or the constructor itself is)
FarDuration == [far |-> TRUE, day |-> 0, sec |-> 0]

\* 2^32 units of 1/perDay days, as whole days and remaining units
Pow32Days(perDay) == 2 * (I32Max \div perDay) + (2 * (I32Max % perDay) + 2) \div perDay

Pow32Units(perDay) == (2 * (I32Max % perDay) + 2) % perDay

\* Duration::seconds / minutes / hours / days (v) for a unit of unitSecs seconds
duration_of(v, unitSecs) ==
    LET perDay == SecondsPerDay \div unitSecs
        absHi  == IF v.hi < 0 THEN -v.hi ELSE v.hi
    IN  IF perDay = 1
        THEN IF v.hi # 0 \/ v.lo > DaySpan \/ v.lo < -DaySpan
             THEN FarDuration
             ELSE [far |-> FALSE, day |-> v.lo, sec |-> 0]
        ELSE IF absHi > DaySpan \div Pow32Days(perDay)
             THEN FarDuration
             ELSE LET n == Normalize(v.hi * Pow32Days(perDay) + (v.lo \div perDay),
                                     (v.hi * Pow32Units(perDay) + (v.lo % perDay)) * unitSecs)
                  IN  [far |-> FALSE, day |-> n.day, sec |-> n.sec]

\* DateTime::checked_add_signed, then expect
shifted(time, days, secs) ==
    LET u == naive_utc(time)
        n == Normalize(u.day + days, u.sec + secs)
        c == civil_from_days(n.day)
    IN  IF c.year < MinYear \/ c.year > MaxYear
        THEN Panic("DateTime + TimeDelta overflowed")
        ELSE Returned(from_utc_datetime(time.zone, n))

\* (variant: the duration is added)
offset_neg_adding(time, duration) ==
    IF duration.far
    THEN Panic("DateTime - TimeDelta overflowed")
    ELSE shifted(time, duration.day, duration.sec)

\* time.clone() - duration
offset_neg(time, duration) ==
    IF duration.far
    THEN Panic("DateTime - TimeDelta overflowed")
    ELSE shifted(time, -duration.day, -duration.sec)

\* time.clone() + duration
offset(time, duration) ==
    IF duration.far
    THEN Panic("DateTime + TimeDelta overflowed")
    ELSE shifted(time, duration.day, duration.sec)

seconds_from_now(self) == offset(self.time_now, duration_of(self.value, 1))

seconds_ago(self) == offset_neg(self.time_now, duration_of(self.value, 1))

minutes_from_now(self) == offset(self.time_now, duration_of(self.value, SecondsPerMinute))

minutes_ago(self) == offset_neg(self.time_now, duration_of(self.value, SecondsPerMinute))

hours_from_now(self) == offset(self.time_now, duration_of(self.value, SecondsPerHour))

hours_ago(self) == offset_neg(self.time_now, duration_of(self.value, SecondsPerHour))

days_from_now(self) == offset(self.time_now, duration_of(self.value, SecondsPerDay))

days_ago(self) == offset_neg(self.time_now, duration_of(self.value, SecondsPerDay))

-----------------------------------------------------------------------------
(* State machine: an EasyTime is constructed, then operations are called on  *)
(* it; `op`, `arg` and `result` hold the last call, the i32 it passed to     *)
(* add_months / add_years and what it returned                               *)

\* `probe` holds a direct call of the helper days_in_month(year, month) and
\* what it returned (0: not called); no such call is recorded here
NoProbe == [year |-> 0, month |-> 0, days |-> 0]

\* new_with_time(value, time)
Init ==
    /\ value \in Values
    /\ time_now \in DateTimes
    /\ overflow_checks \in BOOLEAN
    /\ op = "new_with_time"
    /\ arg = NoArg
    /\ result = NotCalled
    /\ probe = NoProbe

\* (variant: the call moves the instance's own base time to what it returns)
CallMutating(name, a, out) ==
    /\ op' = name
    /\ arg' = a
    /\ result' = out
    /\ time_now' = IF out.kind = "ok" THEN out.dt ELSE time_now
    /\ UNCHANGED <<value, overflow_checks, probe>>

\* a `&self` method: the fields are read, the result is a new value
Call(name, a, out) ==
    /\ op' = name
    /\ arg' = a
    /\ result' = out
    /\ UNCHANGED <<value, time_now, overflow_checks, probe>>

MonthsFromNow ==
    Call("months_from_now", months_from_now_arg(Self, overflow_checks),
         months_from_now(Self, overflow_checks))

MonthsAgo ==
    Call("months_ago", months_ago_arg(Self, overflow_checks),
         months_ago(Self, overflow_checks))

YearsFromNow ==
    Call("years_from_now", years_from_now_arg(Self, overflow_checks),
         years_from_now(Self, overflow_checks))

YearsAgo ==
    Call("years_ago", years_ago_arg(Self, overflow_checks),
         years_ago(Self, overflow_checks))

DecadesFromNow ==
    Call("decades_from_now", decades_from_now_arg(Self, overflow_checks),
         decades_from_now(Self, overflow_checks))

DecadesAgo ==
    Call("decades_ago", decades_ago_arg(Self, overflow_checks),
         decades_ago(Self, overflow_checks))

CenturiesFromNow ==
    Call("centuries_from_now", centuries_from_now_arg(Self, overflow_checks),
         centuries_from_now(Self, overflow_checks))

CenturiesAgo ==
    Call("centuries_ago", centuries_ago_arg(Self, overflow_checks),
         centuries_ago(Self, overflow_checks))

MillenniumsFromNow ==
    Call("millenniums_from_now", millenniums_from_now_arg(Self, overflow_checks),
         millenniums_from_now(Self, overflow_checks))

MillenniumsAgo ==
    Call("millenniums_ago", millenniums_ago_arg(Self, overflow_checks),
         millenniums_ago(Self, overflow_checks))

Next ==
    \/ MonthsFromNow
    \/ MonthsAgo
    \/ YearsFromNow
    \/ YearsAgo
    \/ DecadesFromNow
    \/ DecadesAgo
    \/ CenturiesFromNow
    \/ CenturiesAgo
    \/ MillenniumsFromNow
    \/ MillenniumsAgo

Spec == Init /\ [][Next]_vars

-----------------------------------------------------------------------------
(* Every offset operation, seconds through millenniums, on one instance      *)

\* magnitudes -MaxShift..MaxShift, a day's worth of hours, and the edges
MaxShift == 3

ShiftValues ==
    {I64(0, n) : n \in ((-MaxShift)..MaxShift) \cup {-24, 24, I32Min, I32Max}}
        \cup {I64(1, 1), I64(-1, -1)}

\* bases in the months with a month end, a leap day or a transition
ShiftMonths == {2, 3, 10, 12}

ShiftBases == {dt \in DateTimes : dt.month \in ShiftMonths}

\* new_with_time(value, time)
AllInit ==
    /\ value \in ShiftValues
    /\ time_now \in ShiftBases
    /\ overflow_checks \in BOOLEAN
    /\ op = "new_with_time"
    /\ arg = NoArg
    /\ result = NotCalled
    /\ probe = NoProbe

SecondsFromNow == Call("seconds_from_now", NoArg, seconds_from_now(Self))

SecondsAgo == Call("seconds_ago", NoArg, seconds_ago(Self))

MinutesFromNow == Call("minutes_from_now", NoArg, minutes_from_now(Self))

MinutesAgo == Call("minutes_ago", NoArg, minutes_ago(Self))

HoursFromNow == Call("hours_from_now", NoArg, hours_from_now(Self))

HoursAgo == Call("hours_ago", NoArg, hours_ago(Self))

DaysFromNow == Call("days_from_now", NoArg, days_from_now(Self))

DaysAgo == Call("days_ago", NoArg, days_ago(Self))

AllNext ==
    \/ SecondsFromNow
    \/ SecondsAgo
    \/ MinutesFromNow
    \/ MinutesAgo
    \/ HoursFromNow
    \/ HoursAgo
    \/ DaysFromNow
    \/ DaysAgo
    \/ Next

AllSpec == AllInit /\ [][AllNext]_vars

-----------------------------------------------------------------------------
(* Vocabulary of the properties *)

MonthOps == {"months_from_now", "months_ago"}

YearOps ==
    {"years_from_now", "years_ago", "decades_from_now", "decades_ago",
     "centuries_from_now", "centuries_ago", "millenniums_from_now", "millenniums_ago"}

\* add_months / add_years was entered with the i32 arg.n
MonthsCalled == op \in MonthOps /\ arg.ok

YearsCalled == op \in YearOps /\ arg.ok

\* no month delta beyond this magnitude can land on a year chrono represents
MonthSpan == 12 * (MaxYear - MinYear + 1)

YearSpan == MaxYear - MinYear

InSpan(n, span) == n >= -span /\ n <= span

\* the zero-based linear month index of a base moved by delta (unbounded integers)
LinearMonth(dt, delta) == dt.year * 12 + (dt.month - 1) + delta

\* the civil date the specification asks of a month offset
ExpectedMonthsDate(dt, delta) ==
    LET total == LinearMonth(dt, delta)
        y     == total \div 12
        m     == (total % 12) + 1
    IN  [year |-> y, month |-> m, day |-> Min(dt.day, ChronoDaysInMonth(y, m)),
         secs |-> dt.secs]

\* the civil date the specification asks of a year offset
ExpectedYearsDate(dt, delta) ==
    LET y == dt.year + delta
    IN  [year |-> y, month |-> dt.month,
         day |-> Min(dt.day, ChronoDaysInMonth(y, dt.month)), secs |-> dt.secs]

Representable(naive) == naive.year >= MinYear /\ naive.year <= MaxYear

ExistsLocally(zone, naive) == from_local_datetime(zone, naive).kind # "None"

\* the instant of a date-time relative to the start of its local day
InstantOfDay(secs, off) == secs - off

-----------------------------------------------------------------------------
(* Properties *)

\* C1: add_months returns a date-time whose year is floorDiv(year*12 + (month-1)
\* + delta, 12) and whose month is floorMod(same, 12) + 1, a month in 1..12, for
\* zero, positive and negative deltas; it returns whenever that year is
\* representable and the composed local time exists.
C1_MonthsYearMonthFloored ==
    MonthsCalled =>
        /\ result.kind = "ok" =>
            /\ InSpan(arg.n, MonthSpan)
            /\ result.dt.year = LinearMonth(time_now, arg.n) \div 12
            /\ result.dt.month = (LinearMonth(time_now, arg.n) % 12) + 1
            /\ result.dt.month \in 1..12
        /\ (/\ InSpan(arg.n, MonthSpan)
            /\ Representable(ExpectedMonthsDate(time_now, arg.n))
            /\ ExistsLocally(time_now.zone, ExpectedMonthsDate(time_now, arg.n)))
           => result.kind = "ok"

\* a negative delta spanning several years reached a negative linear index
C1_Witness ==
    /\ MonthsCalled
    /\ result.kind = "ok"
    /\ arg.n < -24
    /\ result.dt.year < 0
    /\ result.dt.month = 11

\* C2: the day of the add_months result is min(base day, days in the target
\* year/month): kept when it exists there, else the last day of that month.
C2_MonthsDayClamped ==
    (MonthsCalled /\ result.kind = "ok") =>
        result.dt.day =
            Min(time_now.day, ChronoDaysInMonth(result.dt.year, result.dt.month))

\* Jan 31 plus one month in a leap year gave Feb 29
C2_Witness ==
    /\ op = "months_from_now"
    /\ arg.n = 1
    /\ time_now.month = 1 /\ time_now.day = 31
    /\ result.kind = "ok"
    /\ result.dt.month = 2 /\ result.dt.day = 29

\* C3: add_years returns year = base year + delta, month = base month and
\* day = min(base day, daysInMonth(target year, base month)).
C3_YearsFields ==
    (YearsCalled /\ result.kind = "ok") =>
        /\ InSpan(arg.n, YearSpan)
        /\ result.dt.year = time_now.year + arg.n
        /\ result.dt.month = time_now.month
        /\ result.dt.day =
            Min(time_now.day, ChronoDaysInMonth(time_now.year + arg.n, time_now.month))

\* Feb 29 minus one year landed on Feb 28 of a non-leap year
C3_Witness ==
    /\ op = "years_ago"
    /\ arg.n = -1
    /\ time_now.month = 2 /\ time_now.day = 29
    /\ result.kind = "ok"
    /\ result.dt.month = 2 /\ result.dt.day = 28

\* C4: every returned date-time has a day in 1..daysInMonth(result year, result
\* month), and the date handed to NaiveDate::from_ymd_opt never has a day missing
\* from its month: an "Invalid date" panic is only ever due to the year.
C4_DayAlwaysValid ==
    /\ (op \in MonthOps \cup YearOps /\ result.kind = "ok") =>
            /\ result.dt.day >= 1
            /\ result.dt.day <= ChronoDaysInMonth(result.dt.year, result.dt.month)
    /\ MonthsCalled =>
            LET t == add_months_target(Self, arg.n)
            IN  /\ t.month \in 1..12
                /\ t.day >= 1 /\ t.day <= ChronoDaysInMonth(t.year, t.month)
    /\ YearsCalled =>
            LET t == add_years_target(Self, arg.n)
            IN  t.day >= 1 /\ t.day <= ChronoDaysInMonth(t.year, t.month)
    /\ result.msg \in {"Invalid date after adding months", "Invalid date after adding years"}
            => LET t == IF op \in MonthOps THEN add_months_target(Self, arg.n)
                        ELSE add_years_target(Self, arg.n)
               IN  ~Representable(t)

\* a day 31 was clamped to a 30-day month and the date was built
C4_Witness ==
    /\ op \in MonthOps \cup YearOps
    /\ result.kind = "ok"
    /\ time_now.day = 31
    /\ result.dt.day = 30

\* the civil date the last call handed to NaiveDate::from_ymd_opt
Target ==
    IF op \in MonthOps THEN add_months_target(Self, arg.n) ELSE add_years_target(Self, arg.n)

\* the naive local date-time the last call composed, once the date was built
Composed ==
    [year |-> Target.year, month |-> Target.month, day |-> Target.day,
     secs |-> time_now.secs]

Built ==
    /\ MonthsCalled \/ YearsCalled
    /\ from_ymd_opt(Target.year, Target.month, Target.day)

\* C5 as stated: a composed local time that does not exist in the base's zone
\* is surfaced as a NonexistentLocalTime error result.
C5_GapIsErrorResult ==
    (Built /\ from_local_datetime(time_now.zone, Composed).kind = "None") =>
        result.kind = "err" /\ result.msg = "NonexistentLocalTime"

\* C5, amended: a composed local time that does not exist in the base's zone
\* makes the operation panic with "Invalid or non-existent local time."; no
\* date-time, shifted or otherwise, is returned.
C5_GapPanics ==
    (Built /\ from_local_datetime(time_now.zone, Composed).kind = "None") =>
        /\ result.kind = "panic"
        /\ result.msg = "Invalid or non-existent local time."
        /\ result.dt = NoDateTime

\* a month offset clamped onto March 31 02:30 of the zone with daylight saving
C5_Witness ==
    /\ Built
    /\ time_now.zone = "DST"
    /\ InGap(Composed)
    /\ result.kind = "panic"

\* C6: an ambiguous composed local time does not fail and yields the earlier of
\* the two candidate instants; a unique one yields its single candidate.
C6_AmbiguousPicksEarlier ==
    Built =>
        LET lr == from_local_datetime(time_now.zone, Composed)
        IN  /\ lr.kind \in {"Ambiguous", "Single"} =>
                /\ result.kind = "ok"
                /\ naive_local(result.dt) = Composed
                /\ result.dt.off \in Offsets(time_now.zone, Composed)
                /\ \A o \in Offsets(time_now.zone, Composed) :
                      InstantOfDay(result.dt.secs, result.dt.off)
                          <= InstantOfDay(Composed.secs, o)

\* an offset landed on October 31 02:30, which occurs twice
C6_Witness ==
    /\ Built
    /\ from_local_datetime(time_now.zone, Composed).kind = "Ambiguous"
    /\ result.kind = "ok"
    /\ result.dt.off = DstOff
    /\ time_now.month # 10

\* the sign and the scale each operation applies to the magnitude `value`
Sign(name) ==
    IF name \in {"months_ago", "years_ago", "decades_ago", "centuries_ago", "millenniums_ago"}
    THEN -1 ELSE 1

Scale(name) ==
    CASE name \in {"decades_from_now", "decades_ago"} -> 10
      [] name \in {"centuries_from_now", "centuries_ago"} -> 100
      [] name \in {"millenniums_from_now", "millenniums_ago"} -> 1000
      [] OTHER -> 1

\* C7 as stated: for every 64-bit magnitude an operation that returns has moved
\* the base by exactly that magnitude (times the unit's scale); a magnitude out
\* of range is a failure, never a wrapped or truncated smaller offset.
C7_ExactOrFails ==
    (op \in MonthOps \cup YearOps /\ result.kind = "ok") =>
        /\ value.hi = 0
        /\ InSpan(value.lo, YearSpan)
        /\ op \in MonthOps =>
              /\ result.dt.year = LinearMonth(time_now, Sign(op) * value.lo) \div 12
              /\ result.dt.month = (LinearMonth(time_now, Sign(op) * value.lo) % 12) + 1
        /\ op \in YearOps =>
              result.dt.year = time_now.year + Sign(op) * Scale(op) * value.lo

\* C8 as stated: the addition year*12 + (month-1) + months never overflows.
C8_TotalMonthsNeverOverflows ==
    MonthsCalled => ~total_months_overflows(time_now.year, time_now.month, arg.n)

\* C9: on a base whose local time is unique in its zone, a month offset of 0
\* and a year offset of 0 return the base itself.
C9_ZeroIsIdentity ==
    (/\ MonthsCalled \/ YearsCalled
     /\ arg.n = 0
     /\ from_local_datetime(time_now.zone, naive_local(time_now)).kind = "Single")
        => result = Returned(time_now)

\* a zero offset was applied to a leap day and to nothing else
C9_Witness ==
    /\ MonthsCalled \/ YearsCalled
    /\ arg.n = 0
    /\ time_now.month = 2 /\ time_now.day = 29
    /\ result.kind = "ok"
    /\ result.dt = time_now

\* the largest k whose 12 * k is an i32
MaxYearsAsMonths == I32Max \div 12

\* C10: add_months(d, 12 * k) and add_years(d, k) give the same date-time
\* (whenever either returns one, the other returns the same).
C10_MonthsAsYears ==
    (YearsCalled /\ InSpan(arg.n, MaxYearsAsMonths)) =>
        LET r == add_months(Self, 12 * arg.n, overflow_checks)
        IN  (r.kind = "ok" \/ result.kind = "ok") => r = result

\* k years and 12k months both clamped a leap day to Feb 28
C10_Witness ==
    /\ YearsCalled
    /\ arg.n \notin {0, 1, -1}
    /\ time_now.month = 2 /\ time_now.day = 29
    /\ result.kind = "ok"
    /\ result.dt.day = 28
    /\ add_months(Self, 12 * arg.n, overflow_checks) = result

\* an EasyTime built on the date-time a call returned: new_with_time(value, dt)
Rebased(dt) == [value |-> value, time_now |-> dt]

\* C11: a month offset of m followed by a month offset of -m gives back the
\* base's (year, month) whenever neither step clamped the day -- and then the
\* day and the time-of-day as well.
C11_MonthsRoundTrip ==
    (MonthsCalled /\ result.kind = "ok" /\ result.dt.day = time_now.day) =>
        LET back == add_months(Rebased(result.dt), -arg.n, overflow_checks)
        IN  /\ back.kind = "ok"
            /\ back.dt.day = result.dt.day =>
                  /\ back.dt.year = time_now.year
                  /\ back.dt.month = time_now.month
                  /\ back.dt.day = time_now.day
                  /\ back.dt.secs = time_now.secs

\* thirteen months forward and back across two year boundaries, no clamp
C11_Witness ==
    /\ MonthsCalled
    /\ arg.n = 13
    /\ time_now.day = 30
    /\ result.kind = "ok"
    /\ result.dt.day = 30
    /\ result.dt.year = time_now.year + 2
    /\ naive_local(add_months(Rebased(result.dt), -13, overflow_checks).dt)
          = naive_local(time_now)

ScaledOps == YearOps \ {"years_from_now", "years_ago"}

\* C12 as stated: for every magnitude k a scaled operation is the year offset
\* by +-(10 | 100 | 1000) * k -- the same date-time where that offset exists, a
\* failure where the product is beyond every representable year.
C12_ScaledIsYearOffset ==
    op \in ScaledOps =>
        IF value.hi = 0 /\ InSpan(value.lo, I32Max \div Scale(op))
        THEN result = add_years(Self, Sign(op) * Scale(op) * value.lo, overflow_checks)
        ELSE result.kind # "ok"

\* -v for a 64-bit v = hi * 2^32 + lo with lo in the signed 32-bit range
Neg64(v) ==
    IF v.lo = I32Min THEN [hi |-> 1 - v.hi, lo |-> I32Min]
                     ELSE [hi |-> -v.hi, lo |-> -v.lo]

\* the same instance with its value negated: new_with_time(-value, time_now)
Negated == [value |-> Neg64(value), time_now |-> time_now]

\* what a call gave: the date-time, or the fact that it failed
Gave(out) == <<out.kind, out.dt>>

\* (year, month) of a strictly before (year, month) of b
MonthBefore(a, b) == a.year < b.year \/ (a.year = b.year /\ a.month < b.month)

\* C13: months_ago / years_ago with value v give what months_from_now /
\* years_from_now give with value -v (the same date-time, or both fail), and
\* months_from_now with a negative magnitude returns an earlier month.
C13_AgoIsNegatedFromNow ==
    /\ op = "months_ago" => Gave(result) = Gave(months_from_now(Negated, overflow_checks))
    /\ op = "years_ago" => Gave(result) = Gave(years_from_now(Negated, overflow_checks))
    /\ (op = "months_from_now" /\ as_i32(value) < 0 /\ result.kind = "ok") =>
            MonthBefore(result.dt, time_now)

\* months_ago with value -13 returned a date-time in a later year
C13_Witness ==
    /\ op = "months_ago"
    /\ value = I64(0, -13)
    /\ result.kind = "ok"
    /\ result.dt.year > time_now.year
    /\ result.dt = months_from_now(Negated, overflow_checks).dt

\* C16: a month or year offset that returns keeps the base's local wall-clock
\* time-of-day, in the base's own zone.
C16_TimeOfDayPreserved ==
    ((MonthsCalled \/ YearsCalled) /\ result.kind = "ok") =>
        /\ result.dt.secs = time_now.secs
        /\ result.dt.zone = time_now.zone

\* the offset crossed a daylight-saving change: same wall clock, other UTC offset
C16_Witness ==
    /\ MonthsCalled
    /\ result.kind = "ok"
    /\ result.dt.off # time_now.off
    /\ result.dt.secs = time_now.secs
    /\ InstantOfDay(result.dt.secs, result.dt.off) # InstantOfDay(time_now.secs, time_now.off)

\* add_months reached its days_in_month call (the sum did not panic before it)
MonthsLookedUp ==
    /\ MonthsCalled
    /\ ~(overflow_checks /\ total_months_overflows(time_now.year, time_now.month, arg.n))

\* add_years reached its days_in_month call
YearsLookedUp ==
    /\ YearsCalled
    /\ ~(overflow_checks /\ target_year_overflows(time_now.year, arg.n))

\* C18: on both call paths days_in_month receives a month in 1..12, so the
\* table index month - 1 is in 0..11 and the lookup never panics.
C18_MonthIndexInRange ==
    /\ MonthsLookedUp =>
          LET t == add_months_target(Self, arg.n)
          IN  /\ t.month \in 1..12
              /\ IndexInBounds(t.month)
              /\ days_in_month(t.year, t.month) # 0
              /\ result.msg # "index out of bounds"
    /\ YearsLookedUp =>
          LET t == add_years_target(Self, arg.n)
          IN  /\ t.month \in 1..12
              /\ IndexInBounds(t.month)
              /\ days_in_month(t.year, t.month) # 0

\* a negative linear month index: the target lies before year 0
C18_Witness ==
    /\ MonthsLookedUp
    /\ ~total_months_overflows(time_now.year, time_now.month, arg.n)
    /\ rem_trunc(total_months(time_now.year, time_now.month, arg.n), 12) < 0
    /\ add_months_target(Self, arg.n).month \in 1..12
    /\ result.kind = "ok"

\* the base date-times on the days of time_now's own month, same zone and clock
SameMonthBases ==
    UNION {{MakeDateTime(time_now.zone, n, o) : o \in Offsets(time_now.zone, n)} :
            n \in {[year |-> time_now.year, month |-> time_now.month, day |-> d,
                    secs |-> time_now.secs] :
                        d \in {x \in SampleDays :
                                 from_ymd_opt(time_now.year, time_now.month, x)}}}

\* C19: month offsets are day-monotonic: for two bases in one month the same
\* delta gives results in one target month whose days are ordered as the base
\* days are.
C19_DayMonotonic ==
    (MonthsCalled /\ result.kind = "ok") =>
        \A other \in SameMonthBases :
            LET r2 == add_months(Rebased(other), arg.n, overflow_checks)
            IN  r2.kind = "ok" =>
                  /\ r2.dt.year = result.dt.year
                  /\ r2.dt.month = result.dt.month
                  /\ time_now.day <= other.day => result.dt.day <= r2.dt.day
                  /\ time_now.day >= other.day => result.dt.day >= r2.dt.day

\* two distinct base days clamped to one result day, a third kept below them
C19_Witness ==
    /\ MonthsCalled
    /\ result.kind = "ok"
    /\ time_now.day = 30
    /\ result.dt.day = 29
    /\ \E a, b \in SameMonthBases :
          /\ a.day = 31
          /\ b.day = 28
          /\ add_months(Rebased(a), arg.n, overflow_checks).dt.day = 29
          /\ add_months(Rebased(b), arg.n, overflow_checks).dt.day = 28

\* the second deltas of a two-step offset
SecondDeltas == (-MaxDelta)..MaxDelta

\* C20: month offsets compose additively: a months and then b months give the
\* (year, month) of a + b months in one call, and the identical date-time when
\* the base day is at most 28.
C20_MonthsCompose ==
    (MonthsCalled /\ result.kind = "ok") =>
        \A b \in SecondDeltas :
            LET twoSteps == add_months(Rebased(result.dt), b, overflow_checks)
                oneCall  == add_months(Self, arg.n + b, overflow_checks)
            IN  /\ (twoSteps.kind = "ok" /\ oneCall.kind = "ok") =>
                      /\ twoSteps.dt.year = oneCall.dt.year
                      /\ twoSteps.dt.month = oneCall.dt.month
                /\ (time_now.day <= 28 /\ twoSteps.kind = "ok") => oneCall = twoSteps

\* January 31 plus one month plus one month is March 28 or 29; plus two months
\* in one call it is March 31
C20_Witness ==
    /\ MonthsCalled
    /\ arg.n = 1
    /\ time_now.month = 1
    /\ time_now.day = 31
    /\ result.kind = "ok"
    /\ LET twoSteps == add_months(Rebased(result.dt), 1, overflow_checks)
           oneCall  == add_months(Self, 2, overflow_checks)
       IN  /\ twoSteps.kind = "ok"
           /\ oneCall.kind = "ok"
           /\ twoSteps.dt.month = 3
           /\ oneCall.dt.month = 3
           /\ twoSteps.dt.day < oneCall.dt.day

-----------------------------------------------------------------------------
(* The helper days_in_month on its own: an associated function, applied to   *)
(* a year and a month without an EasyTime instance                           *)

\* years -MaxProbeYear..MaxProbeYear are probed: every residue of the 400-year
\* cycle, on both sides of year 0
MaxProbeYear == 800

ProbeYears == (-MaxProbeYear)..MaxProbeYear

\* the months add_months and add_years pass
ProbeMonths == 1..Len(DAYS_IN_MONTH)

DaysInit ==
    /\ value = I64(0, 0)
    /\ time_now = NoDateTime
    /\ overflow_checks \in BOOLEAN
    /\ op = "none"
    /\ arg = NoArg
    /\ result = NotCalled
    /\ probe \in {[year |-> y, month |-> m, days |-> 0] : y \in ProbeYears, m \in ProbeMonths}

\* Self::days_in_month(year, month)
DaysInMonth ==
    /\ probe' = [probe EXCEPT !.days = days_in_month(probe.year, probe.month)]
    /\ UNCHANGED <<value, time_now, overflow_checks, op, arg, result>>

DaysNext == DaysInMonth

DaysSpec == DaysInit /\ [][DaysNext]_vars

\* the Gregorian rule, with the mathematical remainder
GregorianLeap(year) == (year % 4 = 0 /\ year % 100 # 0) \/ year % 400 = 0

GregorianDays(year, month) ==
    CASE month \in {1, 3, 5, 7, 8, 10, 12} -> 31
      [] month \in {4, 6, 9, 11} -> 30
      [] month = 2 -> IF GregorianLeap(year) THEN 29 ELSE 28

\* C17: for every year (zero and negative years included) and every month in
\* 1..12, days_in_month returns 31, 30, or for February 29 in a Gregorian leap
\* year and 28 otherwise.
C17_DaysInMonthGregorian ==
    probe.days # 0 => probe.days = GregorianDays(probe.year, probe.month)

\* February of a negative century year that is a leap year by the 400 rule
C17_Witness ==
    /\ probe.year = -400
    /\ probe.month = 2
    /\ probe.days = 29

FixedOps ==
    {"seconds_from_now", "seconds_ago", "minutes_from_now", "minutes_ago",
     "hours_from_now", "hours_ago", "days_from_now", "days_ago"}

FixedAgoOps == {"seconds_ago", "minutes_ago", "hours_ago", "days_ago"}

\* seconds in the unit of a fixed-length operation
UnitSeconds(name) ==
    CASE name \in {"seconds_from_now", "seconds_ago"} -> 1
      [] name \in {"minutes_from_now", "minutes_ago"} -> 60
      [] name \in {"hours_from_now", "hours_ago"} -> 3600
      [] name \in {"days_from_now", "days_ago"} -> 86400

\* the signed magnitude the operation moves by: value, or -value for *_ago
Moved(name) == IF name \in FixedAgoOps THEN Neg64(value) ELSE value

\* v units of u seconds as whole days and seconds of a day (v.hi in -1..1;
\* 2^32 = 49710 days 23296 s = 2982616 days 256 min = 178956970 days 16 h)
ExactShift(v, u) ==
    LET perDay == 86400 \div u
        days32 == CASE u = 1 -> 49710 [] u = 60 -> 2982616 [] u = 3600 -> 178956970
                    [] OTHER -> I32Max
        rest32 == CASE u = 1 -> 23296 [] u = 60 -> 256 [] u = 3600 -> 16 [] OTHER -> 0
        secs   == (v.hi * rest32 + (v.lo % perDay)) * u
    IN  [day |-> v.hi * days32 + (v.lo \div perDay) + (secs \div 86400),
         sec |-> secs % 86400]

\* the shift leaves the calendar: by its size alone, or by where it lands
LeavesCalendar(base, shift) ==
    \/ shift.day > DaySpan
    \/ shift.day < -DaySpan
    \/ LET c == civil_from_days(base.day + shift.day + (base.sec + shift.sec) \div 86400)
       IN  c.year < MinYear \/ c.year > MaxYear

\* C15: a fixed-length operation returns the base instant plus (from_now) or
\* minus (ago) value * {1, 60, 3600, 86400} seconds, shown in the base's zone;
\* it fails only when that instant is outside the calendar.
C15_FixedDuration ==
    op \in FixedOps =>
        LET base  == naive_utc(time_now)
            shift == ExactShift(Moved(op), UnitSeconds(op))
        IN  IF Moved(op).hi # 0 /\ UnitSeconds(op) = 86400
            THEN result.kind = "panic"
            ELSE IF LeavesCalendar(base, shift)
            THEN result.kind = "panic"
            ELSE /\ result.kind = "ok"
                 /\ result.dt.zone = time_now.zone
                 /\ naive_utc(result.dt).day =
                        base.day + shift.day + (base.sec + shift.sec) \div 86400
                 /\ naive_utc(result.dt).sec = (base.sec + shift.sec) % 86400
                 /\ result.dt.off \in Offsets(result.dt.zone, naive_local(result.dt))

\* one hour after the first 02:30 of the night the clocks go back is the second
\* 02:30: the same wall clock at the other offset
C15_Witness ==
    /\ op = "hours_from_now"
    /\ value = I64(0, 1)
    /\ result.kind = "ok"
    /\ naive_local(result.dt) = naive_local(time_now)
    /\ time_now.off = DstOff
    /\ result.dt.off = StdOff

\* C14: no offset operation, seconds through millenniums, changes the value or
\* the base time_now of the instance it is called on, and calling the same
\* operation again returns the same result.
C14_NoMutation ==
    [][/\ value' = value
       /\ time_now' = time_now
       /\ op' = op => result' = result]_vars

\* a call has returned a date-time other than the base, which the instance
\* still holds: the same call on it gives the same date-time again
C14_Witness ==
    /\ op = "days_from_now"
    /\ value = I64(0, 1)
    /\ result.kind = "ok"
    /\ result.dt # time_now
    /\ result = days_from_now(Self)

\* the base is a leap day and the year the offset arrived in has none
LeapDayLost ==
    /\ time_now.month = 2
    /\ time_now.day = 29
    /\ ~GregorianLeap(result.dt.year)

\* C21: a year offset that returns changes the day-of-month exactly when the
\* base is February 29 and the target year is not a leap year, and then the
\* day is 28; no month or year offset returns a day greater than the base day.
C21_DayChangesOnlyOnLeapDay ==
    /\ (YearsCalled /\ result.kind = "ok") =>
          /\ result.dt.day # time_now.day <=> LeapDayLost
          /\ LeapDayLost => result.dt.day = 28
          /\ result.dt.month = time_now.month
    /\ ((MonthsCalled \/ YearsCalled) /\ result.kind = "ok") =>
          result.dt.day <= time_now.day

\* a scaled year offset from February 29 arrived in a non-leap year on the 28th
C21_Witness ==
    /\ YearsCalled
    /\ op \in ScaledOps
    /\ result.kind = "ok"
    /\ LeapDayLost
    /\ time_now.day = 29
    /\ result.dt.day = 28

====
